---- MODULE Spec2Model ----
(***************************************************************************)
(* Model of ost/s1/burst_to_ard.py: the routine burst_to_ard, which drives *)
(* the SNAP engine through import, polarimetric decomposition,             *)
(* calibration, speckle filtering, terrain flattening, dB conversion,      *)
(* terrain correction, layover/shadow mask and the coherence branch.       *)
(*                                                                         *)
(* One action models one block of burst_to_ard: the engine invocation of   *)
(* the block together with everything the routine does before the next     *)
(* invocation (return-code test, output check, move, delete, early         *)
(* return).  The engine is a black box: every invocation returns an exit   *)
(* code and may or may not leave an output product behind.                 *)
(***************************************************************************)
EXTENDS Integers, Sequences, FiniteSets, TLC

VARIABLES
    ard,                \* ard_params['single ARD'] (lines 631-633)
    coherence,          \* argument coherence
    remove_slave_import,\* argument remove_slave_import
    master_burst_id,    \* argument master_burst_id
    slave_burst_id,     \* argument slave_burst_id
    tempDir,            \* content of temp_dir: file name -> state of the product
    outDir,             \* content of out_dir: file name -> state of the file
    pc,                 \* the block of burst_to_ard that runs next
    return_code,        \* the local variable return_code
    out_cal,            \* the local variable out_cal
    returned,           \* value returned by burst_to_ard
    calls,              \* engine invocations made so far, in order
    moves,              \* products moved to out_dir so far, in order
    checks,             \* h.check_out_dimap calls made so far, in order
    tempDir0,           \* content of temp_dir when the run started
    run,                \* number of the call of burst_to_ard on this temp_dir
    prev                \* arguments and result of the call before this one

vars == <<ard, coherence, remove_slave_import, master_burst_id, slave_burst_id,
          tempDir, outDir, pc, return_code, out_cal, returned, calls, moves,
          checks, tempDir0, run, prev>>

----------------------------------------------------------------------------
(* File names.  A name is <<burst id, suffix>>, as in                      *)
(* '{}_import'.format(master_burst_id).                                    *)

BurstIds == {"A", "B"}

ProductTags == {"import", "h", "pol", "cal", "speckle_import", "rtc",
                "cal_db", "bs", "LS", "coreg", "c", "coh"}

LogTags == {"import.err_log", "haa.err_log", "haa_tc.err_log", "cal.err_log",
            "speckle.err_log", "rtc.err_log", "cal_db.err_log",
            "bs_tc.err_log", "LS.err_log", "coreg.err_log", "coh.err_log",
            "coh_tc.err_log"}

DimapNames == BurstIds \X ProductTags

LogNames == BurstIds \X LogTags

check_file == <<"", ".processed">>

OutNames == DimapNames \cup LogNames \cup {check_file}

NoFile == <<"", "">>

\* state of a product on disk: absent, a complete product ("ok"), or a
\* product whose bands have no computable statistics ("nostats")
Absent == "absent"

Quality == {"ok", "nostats"}

ProductTypes == {"RTC", "GTCgamma", "GTCsigma"}

\* a 'product type' that _calibration does not know (lines 153-155)
OtherProductType == "other"

\* local variable not yet assigned / routine not yet returned
Unbound == -1

\* calls of burst_to_ard made one after the other on one temp_dir
MaxRuns == 2

\* "the call before" of the first call
NoRun == [coherence |-> FALSE, remove_slave_import |-> FALSE,
          slave_burst_id |-> "", returned |-> Unbound]

Entries(dir) == {n \in DOMAIN dir : dir[n] # Absent}

exists(dir, f) == dir[f] # Absent

----------------------------------------------------------------------------
(* Helpers of ost.helpers.helpers                                          *)

remove_folder_content(dir) == [n \in DOMAIN dir |-> Absent]

delete_dimap(dir, f) == [dir EXCEPT ![f] = Absent]

check_out_dimap(dir, f, test_stats) ==
    IF dir[f] = Absent THEN 1
    ELSE IF test_stats /\ dir[f] = "nostats" THEN 1
    ELSE 0

\* move_dimap(src, dst): the two directories after the move
move_dimap_src(src_dir, f) == [src_dir EXCEPT ![f] = Absent]

move_dimap_dst(src_dir, dst_dir, f) == [dst_dir EXCEPT ![f] = src_dir[f]]

\* h.run_command(command, logfile): the engine's result is an exit code and
\* what it left at the output path ("none": nothing written).  The routine
\* looks at an output only through check_out_dimap, so for the outputs it
\* never checks the model keeps the two results the routine can tell apart:
\* exit code 0 with the product written, and a non-zero exit code.
Outcomes == {[rc |-> 0, q |-> "ok"], [rc |-> 1, q |-> "none"]}

\* For the outputs the routine checks, the exit code and the state of the
\* output are independent observations.
CheckedOutcomes == [rc : {0, 1}, q : {"none"} \cup Quality]

run_command_out(dir, out, o) ==
    IF o.q = "none" THEN dir ELSE [dir EXCEPT ![out] = o.q]

run_command_log(dir, logfile) == [dir EXCEPT ![logfile] = "ok"]

Call(stage, ins, out, logfile, o) ==
    [stage |-> stage, ins |-> ins, out |-> out, log |-> logfile, rc |-> o.rc,
     inOk |-> \A f \in ins : f \in DOMAIN tempDir => exists(tempDir, f),
     nmoves |-> Len(moves)]

Move(dir, f, test_stats) == [name |-> f, q |-> dir[f], stats |-> test_stats]

Check(f, test_stats, rc) ==
    [name |-> f, stats |-> test_stats, rc |-> rc, ncalls |-> Len(calls) + 1]

----------------------------------------------------------------------------
(* Paths built by burst_to_ard                                             *)

master_import == <<master_burst_id, "import">>

slave_import_MasterId == <<master_burst_id, "import">>

slave_import == <<slave_burst_id, "import">>

out_haa == <<master_burst_id, "h">>

out_htc == <<master_burst_id, "pol">>

speckle_import == <<master_burst_id, "speckle_import">>

out_rtc == <<master_burst_id, "rtc">>

out_db == <<master_burst_id, "cal_db">>

out_tc == <<master_burst_id, "bs">>

out_ls == <<master_burst_id, "LS">>

out_coreg == <<master_burst_id, "coreg">>

out_coh == <<master_burst_id, "c">>

out_tc_coh == <<master_burst_id, "coh">>

Log_SameName(id, tag) == <<id, "import.err_log">>

Log(id, tag) == <<id, tag>>

----------------------------------------------------------------------------
Configs == [haa : BOOLEAN, speckle : BOOLEAN,
            product_type : ProductTypes \cup {OtherProductType},
            to_db : BOOLEAN, ls_mask : BOOLEAN]

Init ==
    /\ ard \in Configs
    /\ coherence \in BOOLEAN
    /\ remove_slave_import \in BOOLEAN
    /\ master_burst_id = "A"
    /\ slave_burst_id \in BurstIds \ {master_burst_id}
    /\ \E pre \in SUBSET {master_import, slave_import} :
          tempDir = [n \in DimapNames |-> IF n \in pre THEN "ok" ELSE Absent]
    /\ tempDir0 = tempDir
    /\ outDir = [n \in OutNames |-> Absent]
    /\ pc = "import"
    /\ return_code = Unbound
    /\ out_cal = NoFile
    /\ returned = Unbound
    /\ calls = << >>
    /\ moves = << >>
    /\ checks = << >>
    /\ run = 1
    /\ prev = NoRun

params == <<ard, coherence, remove_slave_import, master_burst_id,
            slave_burst_id, tempDir0, run, prev>>

(* The conditions burst_to_ard branches on                                 *)

\* line 638: if not os.path.exists('{}.dim'.format(master_import))
NeedImport_AlwaysImport == TRUE

NeedImport == ~exists(tempDir, master_import)

\* line 647: if ard['H-A-Alpha']
DoHAAlpha == ard.haa

\* lines 141-153: the product types _calibration has a graph for
KnownProductType == ard.product_type \in ProductTypes

\* line 689: if not coherence
RemoveImportAfterCal_Always == TRUE

RemoveImportAfterCal == ~coherence

\* line 694: if ard['remove speckle']
DoSpeckle_WrongKey == ard.to_db

DoSpeckle == ard.speckle

\* line 712: if ard['product type'] == 'RTC'
DoFlattening_NotSigma == ard.product_type # "GTCsigma"

DoFlattening == ard.product_type = "RTC"

\* line 729: if ard['to db']
DoDb_Inverted == ~ard.to_db

DoDb == ard.to_db

\* line 757: if ard['create ls mask']
DoLsMask_WrongKey == ard.speckle

DoLsMask == ard.ls_mask

\* line 779: if coherence
DoCoherence_Always == TRUE

DoCoherence == coherence

\* line 810: if remove_slave_import is True
RemoveSlaveImport_Always == TRUE

RemoveSlaveImport == remove_slave_import

\* line 846: if return_code == 0
PassedAllTests_Inverted == return_code # 0

PassedAllTests == return_code = 0

AbortRun_NoPurge(t) ==
    /\ tempDir' = t
    /\ pc' = "done"
    /\ returned' = return_code'

\* "h.remove_folder_content(temp_dir); return return_code" after an
\* invocation that left temp_dir as t
AbortRun(t) ==
    /\ tempDir' = remove_folder_content(t)
    /\ pc' = "done"
    /\ returned' = return_code'

\* a failed run_command: out_dir keeps the log, nothing is moved
StageFailed(t, o1) ==
    /\ AbortRun(t)
    /\ outDir' = o1
    /\ UNCHANGED moves

\* h.move_dimap / h.delete_dimap calls made one after the other
MoveOp(f, test_stats) == [op |-> "move", f |-> f, stats |-> test_stats]

DeleteOp(f) == [op |-> "delete", f |-> f, stats |-> FALSE]

ApplyOp(d, x) ==
    IF x.op = "move"
    THEN [temp |-> move_dimap_src(d.temp, x.f),
          out |-> move_dimap_dst(d.temp, d.out, x.f),
          moves |-> Append(d.moves, Move(d.temp, x.f, x.stats))]
    ELSE [d EXCEPT !.temp = delete_dimap(d.temp, x.f)]

RECURSIVE ApplyOps(_, _)
ApplyOps(d, ops) ==
    IF ops = << >> THEN d
    ELSE ApplyOps(ApplyOp(d, Head(ops)), Tail(ops))

\* The file operations ops run in order on temp_dir t and out_dir o1 and
\* the routine goes on at block next.  burst_to_ard has no try/except and
\* looks at no result of these helpers, so a file operation that fails
\* (k operations done before it) ends the routine with the exception.
FileOps(t, o1, ops, next) ==
    \E k \in 0..Len(ops) :
       LET d == ApplyOps([temp |-> t, out |-> o1, moves |-> moves],
                         SubSeq(ops, 1, k))
       IN /\ tempDir' = d.temp
          /\ outDir' = d.out
          /\ moves' = d.moves
          /\ pc' = IF k = Len(ops) THEN next ELSE "raised"
          /\ UNCHANGED returned

\* lines 705-706: h.delete_dimap(out_cal) after the speckle filter
AfterSpeckle_KeepInput == << >>

AfterSpeckle == <<DeleteOp(out_cal)>>

\* line 755: h.move_dimap(out_tc, ...), and nothing else, after the check
AfterBsTc_DeleteInput == <<MoveOp(out_tc, TRUE), DeleteOp(out_cal)>>

AfterBsTc == <<MoveOp(out_tc, TRUE)>>

\* lines 823-824: h.delete_dimap(out_coreg) after the coherence estimation
AfterCoherence_KeepCoreg == << >>

AfterCoherence == <<DeleteOp(out_coreg)>>

\* line 768: h.check_out_dimap(out_ls, test_stats=False)
LsTestStats_Default == TRUE

LsTestStats == FALSE

Skip(next) ==
    /\ pc' = next
    /\ UNCHANGED <<calls, checks, outDir, return_code, tempDir, returned,
                   moves>>

\* lines 635-645
ImportMaster ==
    /\ pc = "import"
    /\ IF NeedImport
       THEN \E o \in Outcomes :
              LET import_log == Log(master_burst_id, "import.err_log")
                  t == run_command_out(tempDir, master_import, o)
                  o1 == run_command_log(outDir, import_log)
              IN /\ calls' = Append(calls, Call("import", {}, master_import,
                                                import_log, o))
                 /\ return_code' = o.rc
                 /\ IF o.rc # 0
                    THEN StageFailed(t, o1)
                    ELSE FileOps(t, o1, << >>, "haa")
                 /\ UNCHANGED checks
       ELSE Skip("haa")
    /\ UNCHANGED <<params, out_cal>>

\* lines 647-657
HAAlpha ==
    /\ pc = "haa"
    /\ IF DoHAAlpha
       THEN \E o \in Outcomes :
              LET haa_log == Log(master_burst_id, "haa.err_log")
                  t == run_command_out(tempDir, out_haa, o)
                  o1 == run_command_log(outDir, haa_log)
              IN /\ calls' = Append(calls, Call("haa", {master_import},
                                                out_haa, haa_log, o))
                 /\ return_code' = o.rc
                 /\ IF o.rc # 0
                    THEN StageFailed(t, o1)
                    ELSE FileOps(t, o1, << >>, "haa_tc")
                 /\ UNCHANGED checks
       ELSE Skip("cal")
    /\ UNCHANGED <<params, out_cal>>

\* lines 659-678
HAAlphaTC ==
    /\ pc = "haa_tc"
    /\ \E o \in CheckedOutcomes :
         LET haa_tc_log == Log(master_burst_id, "haa_tc.err_log")
             t == run_command_out(tempDir, out_htc, o)
             o1 == run_command_log(outDir, haa_tc_log)
         IN /\ calls' = Append(calls, Call("haa_tc", {out_haa}, out_htc,
                                           haa_tc_log, o))
            /\ return_code' = check_out_dimap(t, out_htc, TRUE)
            /\ checks' = Append(checks, Check(out_htc, TRUE, return_code'))
            /\ IF return_code' # 0
               THEN StageFailed(t, o1)
               ELSE FileOps(t, o1, <<MoveOp(out_htc, TRUE), DeleteOp(out_haa)>>,
                            "cal")
    /\ UNCHANGED <<params, out_cal>>

\* lines 680-691, with _calibration (lines 141-170): an unknown product
\* type ends the process by sys.exit(121) before the engine is invoked
Calibration ==
    /\ pc = "cal"
    /\ IF KnownProductType
       THEN \E o \in Outcomes :
              LET cal_log == Log(master_burst_id, "cal.err_log")
                  cal == <<master_burst_id, "cal">>
                  t == run_command_out(tempDir, cal, o)
                  o1 == run_command_log(outDir, cal_log)
              IN /\ calls' = Append(calls, Call("cal", {master_import}, cal,
                                                cal_log, o))
                 /\ out_cal' = cal
                 /\ return_code' = o.rc
                 /\ IF o.rc # 0
                    THEN StageFailed(t, o1)
                    ELSE FileOps(t, o1,
                                 IF RemoveImportAfterCal
                                 THEN <<DeleteOp(master_import)>>
                                 ELSE << >>,
                                 "speckle")
                 /\ UNCHANGED checks
       ELSE /\ Skip("exited")
            /\ out_cal' = <<master_burst_id, "cal">>
    /\ UNCHANGED params

\* lines 693-709
SpeckleFilter ==
    /\ pc = "speckle"
    /\ IF DoSpeckle
       THEN \E o \in Outcomes :
              LET speckle_log == Log(master_burst_id, "speckle.err_log")
                  t == run_command_out(tempDir, speckle_import, o)
                  o1 == run_command_log(outDir, speckle_log)
              IN /\ calls' = Append(calls, Call("speckle", {out_cal},
                                                speckle_import, speckle_log, o))
                 /\ return_code' = o.rc
                 /\ IF o.rc # 0
                    THEN StageFailed(t, o1)
                    ELSE FileOps(t, o1, AfterSpeckle, "rtc")
                 /\ out_cal' = IF pc' = "rtc" THEN speckle_import ELSE out_cal
                 /\ UNCHANGED checks
       ELSE Skip("rtc") /\ UNCHANGED out_cal
    /\ UNCHANGED params

\* lines 711-727
TerrainFlattening ==
    /\ pc = "rtc"
    /\ IF DoFlattening
       THEN \E o \in Outcomes :
              LET rtc_log == Log(master_burst_id, "rtc.err_log")
                  t == run_command_out(tempDir, out_rtc, o)
                  o1 == run_command_log(outDir, rtc_log)
              IN /\ calls' = Append(calls, Call("rtc", {out_cal}, out_rtc,
                                                rtc_log, o))
                 /\ return_code' = o.rc
                 /\ IF o.rc # 0
                    THEN StageFailed(t, o1)
                    ELSE FileOps(t, o1, <<DeleteOp(out_cal)>>, "db")
                 /\ out_cal' = IF pc' = "db" THEN out_rtc ELSE out_cal
                 /\ UNCHANGED checks
       ELSE Skip("db") /\ UNCHANGED out_cal
    /\ UNCHANGED params

\* lines 729-740
LinearToDb ==
    /\ pc = "db"
    /\ IF DoDb
       THEN \E o \in Outcomes :
              LET db_log == Log(master_burst_id, "cal_db.err_log")
                  t == run_command_out(tempDir, out_db, o)
                  o1 == run_command_log(outDir, db_log)
              IN /\ calls' = Append(calls, Call("db", {out_cal}, out_db,
                                                db_log, o))
                 /\ return_code' = o.rc
                 /\ IF o.rc # 0
                    THEN StageFailed(t, o1)
                    ELSE FileOps(t, o1, <<DeleteOp(out_cal)>>, "bs_tc")
                 /\ out_cal' = IF pc' = "bs_tc" THEN out_db ELSE out_cal
                 /\ UNCHANGED checks
       ELSE Skip("bs_tc") /\ UNCHANGED out_cal
    /\ UNCHANGED params

\* lines 742-755
TerrainCorrectionBs ==
    /\ pc = "bs_tc"
    /\ \E o \in CheckedOutcomes :
         LET tc_log == Log(master_burst_id, "bs_tc.err_log")
             t == run_command_out(tempDir, out_tc, o)
             o1 == run_command_log(outDir, tc_log)
         IN /\ calls' = Append(calls, Call("bs_tc", {out_cal}, out_tc,
                                           tc_log, o))
            /\ return_code' = check_out_dimap(t, out_tc, TRUE)
            /\ checks' = Append(checks, Check(out_tc, TRUE, return_code'))
            /\ IF return_code' # 0
               THEN StageFailed(t, o1)
               ELSE FileOps(t, o1, AfterBsTc, "ls")
    /\ UNCHANGED <<params, out_cal>>

\* lines 757-777
LsMask ==
    /\ pc = "ls"
    /\ IF DoLsMask
       THEN \E o \in CheckedOutcomes :
              LET ls_log == Log(master_burst_id, "LS.err_log")
                  t == run_command_out(tempDir, out_ls, o)
                  o1 == run_command_log(outDir, ls_log)
              IN /\ calls' = Append(calls, Call("ls", {out_cal}, out_ls,
                                                ls_log, o))
                 /\ IF o.rc # 0
                    THEN /\ return_code' = o.rc
                         /\ StageFailed(t, o1)
                         /\ UNCHANGED checks
                    ELSE /\ return_code' = check_out_dimap(t, out_ls,
                                                          LsTestStats)
                         /\ checks' = Append(checks,
                                        Check(out_ls, LsTestStats,
                                              return_code'))
                         /\ IF return_code' # 0
                            THEN StageFailed(t, o1)
                            ELSE FileOps(t, o1,
                                         <<MoveOp(out_ls, LsTestStats),
                                           DeleteOp(out_cal)>>,
                                         "slave_import")
       ELSE /\ FileOps(tempDir, outDir, <<DeleteOp(out_cal)>>, "slave_import")
            /\ UNCHANGED <<calls, checks, return_code>>
    /\ UNCHANGED <<params, out_cal>>

\* lines 779-790
ImportSlave ==
    /\ pc = "slave_import"
    /\ IF DoCoherence
       THEN \E o \in Outcomes :
              LET import_log == Log(slave_burst_id, "import.err_log")
                  t == run_command_out(tempDir, slave_import, o)
                  o1 == run_command_log(outDir, import_log)
              IN /\ calls' = Append(calls, Call("slave_import", {},
                                                slave_import, import_log, o))
                 /\ return_code' = o.rc
                 /\ IF o.rc # 0
                    THEN StageFailed(t, o1)
                    ELSE FileOps(t, o1, << >>, "coreg")
                 /\ UNCHANGED checks
       ELSE Skip("final")
    /\ UNCHANGED <<params, out_cal>>

\* lines 792-811
Coreg ==
    /\ pc = "coreg"
    /\ \E o \in Outcomes :
         LET coreg_log == Log(master_burst_id, "coreg.err_log")
             t == run_command_out(tempDir, out_coreg, o)
             o1 == run_command_log(outDir, coreg_log)
         IN /\ calls' = Append(calls, Call("coreg",
                                           {master_import, slave_import},
                                           out_coreg, coreg_log, o))
            /\ return_code' = o.rc
            /\ IF o.rc # 0
               THEN StageFailed(t, o1)
               ELSE FileOps(t, o1,
                            IF RemoveSlaveImport
                            THEN <<DeleteOp(master_import),
                                   DeleteOp(slave_import)>>
                            ELSE <<DeleteOp(master_import)>>,
                            "coh")
    /\ UNCHANGED <<params, out_cal, checks>>

\* lines 813-824
Coherence ==
    /\ pc = "coh"
    /\ \E o \in Outcomes :
         LET coh_log == Log(master_burst_id, "coh.err_log")
             t == run_command_out(tempDir, out_coh, o)
             o1 == run_command_log(outDir, coh_log)
         IN /\ calls' = Append(calls, Call("coh", {out_coreg}, out_coh,
                                           coh_log, o))
            /\ return_code' = o.rc
            /\ IF o.rc # 0
               THEN StageFailed(t, o1)
               ELSE FileOps(t, o1, AfterCoherence, "coh_tc")
    /\ UNCHANGED <<params, out_cal, checks>>

\* lines 826-843
CoherenceTC ==
    /\ pc = "coh_tc"
    /\ \E o \in CheckedOutcomes :
         LET tc_log == Log(master_burst_id, "coh_tc.err_log")
             t == run_command_out(tempDir, out_tc_coh, o)
             o1 == run_command_log(outDir, tc_log)
         IN /\ calls' = Append(calls, Call("coh_tc", {out_coh}, out_tc_coh,
                                           tc_log, o))
            /\ return_code' = check_out_dimap(t, out_tc_coh, TRUE)
            /\ checks' = Append(checks, Check(out_tc_coh, TRUE, return_code'))
            /\ IF return_code' # 0
               THEN StageFailed(t, o1)
               ELSE FileOps(t, o1,
                            <<MoveOp(out_tc_coh, TRUE), DeleteOp(out_coh)>>,
                            "final")
    /\ UNCHANGED <<params, out_cal>>

\* lines 845-854
Finish ==
    /\ pc = "final"
    /\ IF PassedAllTests
       THEN /\ outDir' = [outDir EXCEPT ![check_file] = "ok"]
            /\ UNCHANGED tempDir
       ELSE /\ tempDir' = remove_folder_content(tempDir)
            /\ outDir' = remove_folder_content(outDir)
    /\ pc' = "done"
    /\ returned' = return_code
    /\ UNCHANGED <<params, out_cal, return_code, calls, checks, moves>>

Next ==
    \/ ImportMaster
    \/ HAAlpha
    \/ HAAlphaTC
    \/ Calibration
    \/ SpeckleFilter
    \/ TerrainFlattening
    \/ LinearToDb
    \/ TerrainCorrectionBs
    \/ LsMask
    \/ ImportSlave
    \/ Coreg
    \/ Coherence
    \/ CoherenceTC
    \/ Finish

Spec == Init /\ [][Next]_vars

\* lines 601-633: burst_to_ard is called again on the same temp_dir after a
\* call that returned 0, with the same proc_file, a new out_dir and any
\* burst ids and coherence arguments
NextRun ==
    /\ pc = "done"
    /\ returned = 0
    /\ run < MaxRuns
    /\ run' = run + 1
    /\ prev' = [coherence |-> coherence,
                remove_slave_import |-> remove_slave_import,
                slave_burst_id |-> slave_burst_id,
                returned |-> returned]
    /\ coherence' \in BOOLEAN
    /\ remove_slave_import' \in BOOLEAN
    /\ master_burst_id' \in BurstIds
    /\ slave_burst_id' \in BurstIds \ {master_burst_id'}
    /\ tempDir0' = tempDir
    /\ outDir' = [n \in OutNames |-> Absent]
    /\ pc' = "import"
    /\ return_code' = Unbound
    /\ out_cal' = NoFile
    /\ returned' = Unbound
    /\ calls' = << >>
    /\ moves' = << >>
    /\ checks' = << >>
    /\ UNCHANGED <<ard, tempDir>>

SeriesNext ==
    \/ Next
    \/ NextRun

SeriesSpec == Init /\ [][SeriesNext]_vars

----------------------------------------------------------------------------
Terminal == {"done", "exited", "raised"}

Status ==
    IF pc \notin Terminal THEN "Running"
    ELSE IF pc = "done" /\ returned = 0 THEN "Succeeded" ELSE "Failed"

marker == exists(outDir, check_file)

\* products (not logs, not the marker) present in a directory
Products(dir) == Entries(dir) \cap DimapNames

StageSeq == [i \in 1..Len(calls) |-> calls[i].stage]

Invoked(st) == \E i \in 1..Len(calls) : calls[i].stage = st

Count(st) == Cardinality({i \in 1..Len(calls) : calls[i].stage = st})

Idx(st) == CHOOSE i \in 1..Len(calls) : calls[i].stage = st

AllCallsOk == \A i \in 1..Len(calls) : calls[i].rc = 0

AllOff ==
    /\ ~ard.haa /\ ~ard.speckle /\ ~ard.to_db /\ ~ard.ls_mask /\ ~coherence
    /\ ard.product_type = "GTCgamma"

FixedOrder == <<"import", "haa", "haa_tc", "cal", "speckle", "rtc", "db",
                "bs_tc", "ls", "slave_import", "coreg", "coh", "coh_tc">>

\* the stages the configuration enables
EnabledByConfig(st) ==
    CASE st \in {"import", "cal", "bs_tc"} -> TRUE
      [] st \in {"haa", "haa_tc"} -> ard.haa
      [] st = "speckle" -> ard.speckle
      [] st = "rtc" -> ard.product_type = "RTC"
      [] st = "db" -> ard.to_db
      [] st = "ls" -> ard.ls_mask
      [] st \in {"slave_import", "coreg", "coh", "coh_tc"} -> coherence

\* the same, Import(master) counted only when the master import product
\* was not in temp_dir when the run started
EnabledInRun(st) ==
    IF st = "import" THEN ~exists(tempDir0, master_import)
    ELSE EnabledByConfig(st)

----------------------------------------------------------------------------
\* C1: after a run that returned a non-zero status, temp_dir and out_dir
\* both contain zero entries.
C1_AtomicFailureCleanup ==
    (pc = "done" /\ returned # 0) =>
        (Entries(tempDir) = {} /\ Entries(outDir) = {})

\* C2: after a run has returned, the marker '.processed' is in out_dir if
\* and only if the run returned 0.
C2_MarkerIffSucceeded ==
    pc = "done" => (marker <=> returned = 0)

C2_Witness ==
    /\ pc = "done" /\ returned = 0 /\ marker
    /\ ard.haa /\ coherence

\* C3: a run returns 0 and writes the marker only if every engine
\* invocation it made returned exit code 0 (and every check passed).
C3_SucceededOnlyIfAllStagesOk ==
    (pc = "done" /\ (returned = 0 \/ marker)) => AllCallsOk

\* C4: once an engine invocation has returned a non-zero exit code, the
\* run has failed, that invocation is the last one and nothing was moved
\* to out_dir after it.
C4_FailFast ==
    \A i \in 1..Len(calls) :
        calls[i].rc # 0 =>
            /\ i = Len(calls)
            /\ pc = "done" /\ returned # 0
            /\ Len(moves) = calls[i].nmoves

\* C5: if the master import product is in temp_dir when the run starts,
\* Import(master) is never invoked and the first invocation is
\* PolarimetricDecomposition if enabled, otherwise Calibration; if it is
\* not there, Import(master) is the first invocation.  Some invocation
\* has been made once the run is past the calibration block.
C5_Resumability ==
    /\ pc \notin {"import", "haa", "cal", "exited"} => Len(calls) >= 1
    /\ Len(calls) >= 1 =>
         IF exists(tempDir0, master_import)
         THEN /\ ~Invoked("import")
              /\ calls[1].stage = IF ard.haa THEN "haa" ELSE "cal"
         ELSE /\ calls[1].stage = "import"
              /\ calls[1].out = master_import

C5_Witness ==
    /\ exists(tempDir0, master_import)
    /\ Len(calls) >= 2 /\ calls[1].stage = "haa"

\* C6 as stated: all optional flags false and GTCgamma, all stages
\* succeeding: the invocations are exactly Import, Calibration,
\* TerrainCorrection(backscatter), and out_dir holds one product and the
\* marker.
C6_BranchCorrectness_Stated ==
    (AllOff /\ pc = "done" /\ returned = 0 /\ AllCallsOk) =>
        /\ StageSeq = <<"import", "cal", "bs_tc">>
        /\ Products(outDir) = {out_tc}
        /\ marker

\* C6 amended: as stated, except that Import is invoked only when the
\* master import product was not already in temp_dir; the invocations are
\* then Calibration and TerrainCorrection(backscatter) alone.
C6_BranchCorrectness ==
    (AllOff /\ pc = "done" /\ returned = 0 /\ AllCallsOk) =>
        /\ StageSeq = IF exists(tempDir0, master_import)
                      THEN <<"cal", "bs_tc">>
                      ELSE <<"import", "cal", "bs_tc">>
        /\ Products(outDir) = {out_tc}
        /\ marker

C6_Witness ==
    /\ AllOff /\ pc = "done" /\ returned = 0 /\ AllCallsOk
    /\ StageSeq = <<"import", "cal", "bs_tc">>

\* C7: with product type RTC, TerrainFlattening is invoked exactly once
\* when the run gets past its place in the sequence, after Calibration
\* (and after SpeckleFilter if enabled) and before
\* TerrainCorrection(backscatter); with GTCgamma or GTCsigma it is never
\* invoked.
C7_RtcTriggersFlattening ==
    IF ard.product_type = "RTC"
    THEN /\ Count("rtc") <= 1
         /\ (pc = "db" \/ Invoked("db") \/ Invoked("bs_tc")) =>
               Count("rtc") = 1
         /\ Invoked("rtc") =>
               /\ Invoked("cal") /\ Idx("cal") < Idx("rtc")
               /\ ard.speckle =>
                     (Invoked("speckle") /\ Idx("speckle") < Idx("rtc"))
               /\ Invoked("db") => Idx("rtc") < Idx("db")
               /\ Invoked("bs_tc") => Idx("rtc") < Idx("bs_tc")
    ELSE ~Invoked("rtc")

C7_Witness ==
    /\ ard.product_type = "RTC" /\ ard.speckle
    /\ Invoked("rtc") /\ Invoked("bs_tc")

\* C8: when coherence is not requested, Import(slave), Coregister and
\* Coherence are never invoked and no slave import, coregistration or
\* coherence product is ever created in temp_dir or out_dir.
C8_CoherenceIsolation ==
    ~coherence =>
        /\ \A i \in 1..Len(calls) :
              calls[i].stage \notin {"slave_import", "coreg", "coh", "coh_tc"}
        /\ \A f \in {out_coreg, out_coh, out_tc_coh} :
              ~exists(tempDir, f) /\ ~exists(outDir, f)
        /\ exists(tempDir, slave_import) =>
              tempDir[slave_import] = tempDir0[slave_import]
        /\ ~exists(outDir, slave_import)
        /\ ~exists(outDir, Log(slave_burst_id, "import.err_log"))

C8_Witness ==
    /\ ~coherence /\ pc = "done" /\ returned = 0
    /\ ard.haa /\ ard.ls_mask /\ ard.to_db

\* C9 as stated: when all stages succeed, the invocations of a run are the
\* fixed order restricted to the stages the configuration enables,
\* Import(master) first, and the marker is written after them.
C9_StageOrder_Stated ==
    /\ (pc = "done" /\ returned = 0 /\ AllCallsOk) =>
          (StageSeq = SelectSeq(FixedOrder, EnabledByConfig) /\ marker)
    /\ pc # "done" => ~marker

\* C9 amended: as stated, with Import(master) part of the sequence only
\* when the master import product was not already in temp_dir.
C9_StageOrder ==
    /\ (pc = "done" /\ returned = 0 /\ AllCallsOk) =>
          (StageSeq = SelectSeq(FixedOrder, EnabledInRun) /\ marker)
    /\ pc # "done" => ~marker

\* only dB conversion enabled, GTCsigma
C9_Witness ==
    /\ pc = "done" /\ returned = 0 /\ AllCallsOk /\ marker
    /\ ~ard.haa /\ ~ard.speckle /\ ard.to_db /\ ~ard.ls_mask /\ ~coherence
    /\ ard.product_type = "GTCsigma"
    /\ StageSeq = <<"import", "cal", "db", "bs_tc">>

\* C10: when a run has ended with status 0, out_dir holds the backscatter
\* product, the decomposition product iff decomposition is enabled, the
\* layover/shadow mask iff the mask is enabled, the coherence product iff
\* coherence was requested, and the marker; the marker is never in
\* out_dir without these products.
C10_FinalProductSet ==
    LET ProductsComplete ==
          /\ exists(outDir, out_tc)
          /\ exists(outDir, out_htc) <=> ard.haa
          /\ exists(outDir, out_ls) <=> ard.ls_mask
          /\ exists(outDir, out_tc_coh) <=> coherence
    IN /\ (pc = "done" /\ returned = 0) => (marker /\ ProductsComplete)
       /\ marker => ProductsComplete

C10_Witness ==
    /\ pc = "done" /\ returned = 0 /\ marker
    /\ ard.haa /\ ard.ls_mask /\ coherence
    /\ Products(outDir) = {out_tc, out_htc, out_ls, out_tc_coh}

\* C11: after a run that returned 0 with coherence requested, out_dir holds
\* the backscatter product, the coherence product and the marker, the
\* master import and the coregistration product are gone from temp_dir,
\* and the slave import product is in temp_dir exactly when
\* remove_slave_import is false.
C11_ScenarioC ==
    (pc = "done" /\ returned = 0 /\ coherence) =>
        /\ exists(outDir, out_tc) /\ exists(outDir, out_tc_coh) /\ marker
        /\ ~exists(tempDir, master_import)
        /\ ~exists(tempDir, out_coreg)
        /\ exists(tempDir, slave_import) <=> ~remove_slave_import

C11_Witness ==
    /\ pc = "done" /\ returned = 0 /\ coherence /\ ~remove_slave_import
    /\ exists(tempDir, slave_import)
    /\ Products(outDir) = {out_tc, out_tc_coh}

\* C12: when the Import(master) invocation returns a non-zero status, the
\* run has failed, temp_dir is empty, there is no marker, no other stage
\* has been invoked and the import log is the only log file.
C12_ScenarioD ==
    (Len(calls) >= 1 /\ calls[1].stage = "import" /\ calls[1].rc # 0) =>
        /\ pc = "done" /\ returned # 0
        /\ Entries(tempDir) = {}
        /\ ~marker
        /\ Len(calls) = 1
        /\ Entries(outDir) \cap LogNames =
              {Log(master_burst_id, "import.err_log")}

C12_Witness ==
    /\ Len(calls) = 1 /\ calls[1].stage = "import" /\ calls[1].rc # 0
    /\ exists(tempDir0, slave_import)

\* C13: every engine invocation of a run writes one log file named by
\* burst id and stage, distinct invocations write distinct log files, and
\* every log written is still there in every later state of the run, a
\* failed run included.
C13_Logs ==
    /\ \A i \in 1..Len(calls) :
          /\ calls[i].log \in LogNames
          /\ calls[i].log[1] = calls[i].out[1]
          /\ exists(outDir, calls[i].log)
    /\ \A i, j \in 1..Len(calls) : i # j => calls[i].log # calls[j].log
    /\ Cardinality(Entries(outDir) \cap LogNames) = Len(calls)

C13_Witness ==
    /\ pc = "done" /\ returned # 0 /\ Len(calls) >= 4
    /\ Invoked("slave_import")

\* C14: within one run no stage is invoked twice for the same output
\* product, and an invocation that returned a non-zero exit code is not
\* repeated.
C14_NoRetries ==
    \A i, j \in 1..Len(calls) :
        i # j => (calls[i].out # calls[j].out
                  /\ calls[i].stage # calls[j].stage)

C14_Witness ==
    /\ Len(calls) >= 5 /\ Invoked("import") /\ Invoked("slave_import")
    /\ calls[Len(calls)].rc # 0

\* C18: in the coherence branch, if the slave import product is already in
\* temp_dir, Import(slave) is not invoked and the run goes on to
\* Coregister.
C18_SlaveImportResumable ==
    (coherence /\ exists(tempDir0, slave_import)) =>
        ~Invoked("slave_import")

\* C20: without coherence the master import product is gone from temp_dir
\* as soon as Calibration has succeeded; with coherence it stays in
\* temp_dir from the import up to the invocation of Coregister, which
\* finds it there, and it is gone once Coregister has succeeded.
C20_DeferredDeletion ==
    LET Ok(st) == Invoked(st) /\ calls[Idx(st)].rc = 0
    IN IF ~coherence
       THEN (Ok("cal") /\ pc # "raised") => ~exists(tempDir, master_import)
       ELSE /\ pc \in {"haa", "haa_tc", "cal", "speckle", "rtc", "db",
                         "bs_tc", "ls", "slave_import", "coreg"} =>
                  exists(tempDir, master_import)
            /\ Invoked("coreg") =>
                  master_import \in calls[Idx("coreg")].ins
                  /\ calls[Idx("coreg")].inOk
            /\ (Ok("coreg") /\ pc # "raised") =>
                  ~exists(tempDir, master_import)

C20_Witness ==
    /\ coherence /\ Invoked("coreg") /\ calls[Idx("coreg")].rc = 0
    /\ ard.speckle /\ ard.ls_mask /\ pc = "coh"

\* C15: with a product type that is none of RTC, GTCgamma, GTCsigma the
\* run fails without invoking any engine stage and without creating any
\* product.
C15_ConfigErrorBeforeAnyStage ==
    ~KnownProductType =>
        /\ Len(calls) = 0
        /\ Entries(tempDir) \subseteq Entries(tempDir0)
        /\ Entries(outDir) = {}
        /\ pc \in Terminal => Status = "Failed"

\* C16: when moving a product to out_dir or deleting an intermediate
\* product fails, the run is Failed, no later stage is invoked, no marker
\* is written, and temp_dir and out_dir are purged.
C16_IoFailureAborts ==
    pc = "raised" =>
        /\ Status = "Failed"
        /\ ~marker
        /\ Entries(tempDir) = {}
        /\ Entries(outDir) = {}

CheckedStages == {"haa_tc", "bs_tc", "ls", "coh_tc"}

\* what a failed check_out_dimap after invocation i leads to: the run
\* returned non-zero, temp_dir is purged, there is no marker, invocation i
\* is the last one and nothing was moved after it
TreatedAsFailure(i) ==
    /\ pc = "done" /\ returned # 0
    /\ Entries(tempDir) = {}
    /\ ~marker
    /\ i = Len(calls)
    /\ Len(moves) = calls[i].nmoves

\* C17: for every checked product (decomposition, backscatter, mask,
\* coherence) a failed check and a non-zero exit code of the stage that
\* produces it are treated the same way: the run fails with the same
\* cleanup, no marker and no later invocation (runs in which no file
\* operation failed).
C17_IntegrityFailureLikeStageFailure ==
    pc # "raised" =>
        /\ \A k \in 1..Len(checks) :
              checks[k].rc # 0 => TreatedAsFailure(checks[k].ncalls)
        /\ \A i \in 1..Len(calls) :
              (calls[i].stage \in CheckedStages /\ calls[i].rc # 0) =>
                  TreatedAsFailure(i)

----------------------------------------------------------------------------
\* the products of the backscatter chain: calibrated, filtered, flattened, dB
Chain == {master_burst_id} \X {"cal", "speckle_import", "rtc", "cal_db"}

\* the output of the last stage of the chain that the configuration enables
\* among the stages before block p
CurrentAt(p) ==
    IF p = "bs_tc" /\ ard.to_db THEN <<master_burst_id, "cal_db">>
    ELSE IF p \in {"db", "bs_tc"} /\ ard.product_type = "RTC"
         THEN <<master_burst_id, "rtc">>
    ELSE IF p \in {"rtc", "db", "bs_tc"} /\ ard.speckle
         THEN <<master_burst_id, "speckle_import">>
    ELSE <<master_burst_id, "cal">>

\* C21: from the end of Calibration to the invocation of
\* TerrainCorrection(backscatter), between any two stages, temp_dir holds
\* exactly one product of the chain {calibrated, filtered, flattened, dB}:
\* the output of the last enabled stage so far, which is the current
\* backscatter product out_cal (the input of the stage before is deleted);
\* the input of TerrainCorrection(backscatter) is the output of the last
\* enabled stage of the chain.
C21_ReplacementChain ==
    /\ pc \in {"speckle", "rtc", "db", "bs_tc"} =>
          /\ out_cal = CurrentAt(pc)
          /\ Entries(tempDir) \cap Chain = {out_cal}
          /\ Cardinality(Entries(tempDir) \cap Chain) <= 1
    /\ Invoked("bs_tc") => calls[Idx("bs_tc")].ins = {CurrentAt("bs_tc")}

C21_Witness ==
    /\ Invoked("speckle") /\ Invoked("rtc") /\ Invoked("db")
    /\ Invoked("bs_tc") /\ pc = "ls"
    /\ calls[Idx("bs_tc")].ins = {<<master_burst_id, "cal_db">>}

\* C22: the layover/shadow mask stage is invoked after
\* TerrainCorrection(backscatter), with the input that stage had, and that
\* product is in temp_dir when the mask stage is invoked; the product is
\* still in temp_dir after the backscatter product was moved and is gone
\* once the mask block is over, with the mask enabled or not and with
\* coherence requested or not.
C22_MaskInput ==
    /\ Invoked("ls") =>
          /\ Invoked("bs_tc") /\ Idx("bs_tc") < Idx("ls")
          /\ calls[Idx("ls")].ins = calls[Idx("bs_tc")].ins
          /\ calls[Idx("ls")].ins = {out_cal}
          /\ calls[Idx("ls")].inOk
    /\ pc = "ls" => exists(tempDir, out_cal)
    /\ (pc \in {"slave_import", "coreg", "coh", "coh_tc", "final"}
        \/ (pc = "done" /\ returned = 0)) => ~exists(tempDir, out_cal)

C22_Witness ==
    /\ Invoked("ls") /\ calls[Idx("ls")].rc = 0 /\ pc = "coreg"
    /\ coherence /\ exists(outDir, out_ls) /\ exists(outDir, out_tc)

\* C23: every product in out_dir was moved there in the block that checked
\* that same product with rc 0, and only such products are in out_dir; the
\* decomposition, backscatter and coherence products are checked with
\* statistics, the mask without, so a mask without statistics can be in
\* out_dir and no other product without statistics can; a failed check
\* fails the run.
C23_VerifyBeforeMove ==
    LET Passed == {k \in 1..Len(checks) : checks[k].rc = 0}
    IN /\ Len(moves) <= Cardinality(Passed)
       /\ pc # "raised" => Len(moves) = Cardinality(Passed)
       /\ \A k \in 1..Len(moves) :
             /\ k \in Passed
             /\ checks[k].name = moves[k].name
             /\ checks[k].stats = moves[k].stats
             /\ moves[k].stats => moves[k].q = "ok"
             /\ outDir[moves[k].name] = moves[k].q
       /\ Products(outDir) = {moves[k].name : k \in 1..Len(moves)}
       /\ \A k \in 1..Len(checks) :
             /\ checks[k].stats = (checks[k].name # out_ls)
             /\ checks[k].name \in {out_htc, out_tc, out_ls, out_tc_coh}
             /\ checks[k].rc # 0 => (pc = "done" /\ returned # 0)

C23_Witness ==
    /\ pc = "done" /\ returned = 0
    /\ outDir[out_ls] = "nostats"
    /\ outDir[out_tc] = "ok" /\ outDir[out_htc] = "ok"
    /\ outDir[out_tc_coh] = "ok"

\* C24: after a run that returned 0, temp_dir holds nothing the run
\* created or used, except the slave import product when coherence was
\* requested and remove_slave_import is false (a slave import product
\* that was there before a run without coherence is left as it was).
C24_TempDirAfterSuccess ==
    (pc = "done" /\ returned = 0) =>
        Entries(tempDir) =
            IF coherence
            THEN (IF remove_slave_import THEN {} ELSE {slave_import})
            ELSE Entries(tempDir0) \cap {slave_import}

C24_Witness ==
    /\ pc = "done" /\ returned = 0 /\ coherence /\ ~remove_slave_import
    /\ Entries(tempDir) = {slave_import}
    /\ ard.haa /\ ard.speckle /\ ard.ls_mask /\ Len(moves) = 4

\* C25: in a call of burst_to_ard that follows, on the same temp_dir, a
\* call that returned 0 with coherence requested and remove_slave_import
\* false, and whose master burst id is the slave burst id of that call,
\* Import(master) is not invoked.
C25_TimeSeriesReuse ==
    (/\ run > 1
     /\ prev.returned = 0 /\ prev.coherence /\ ~prev.remove_slave_import
     /\ master_burst_id = prev.slave_burst_id) => ~Invoked("import")

C25_Witness ==
    /\ run > 1
    /\ prev.returned = 0 /\ prev.coherence /\ ~prev.remove_slave_import
    /\ master_burst_id = prev.slave_burst_id
    /\ exists(tempDir0, master_import)
    /\ pc = "done" /\ returned = 0 /\ ~Invoked("import") /\ Invoked("cal")

\* C26: whenever the routine is at its final test return_code is 0, the
\* final step writes the marker, and no step of a run removes an entry
\* of out_dir.
C26_FinalBranch ==
    /\ [](pc = "final" => return_code = 0)
    /\ [][/\ pc = "final" => (marker' /\ tempDir' = tempDir)
          /\ Entries(outDir) \subseteq Entries(outDir')]_vars

C26_Witness ==
    /\ pc = "done" /\ returned = 0 /\ marker
    /\ Invoked("ls") /\ Invoked("coh_tc")
    /\ Cardinality(Entries(outDir)) > Len(calls)

\* C27: every product an invocation of the engine is given as input is in
\* temp_dir when the invocation is made.
C27_InputsExist ==
    \A i \in 1..Len(calls) :
        /\ calls[i].inOk
        /\ \A k \in 1..calls[i].nmoves : moves[k].name \notin calls[i].ins

C27_Witness ==
    /\ Len(calls) = 13 /\ pc = "final"
    /\ \A i \in 1..Len(calls) : calls[i].ins # {} => calls[i].inOk

====
